---- MODULE Spec2Model ----
(***************************************************************************)
(* Model of the rumt event bus: the process-wide registry                  *)
(* RUNTIME_EVENT_BUS (global.rs), the registry operations of               *)
(* RuntimeEventBus (event_bus.rs) and the listener closures generated by   *)
(* the event_handlers! macro.                                              *)
(*                                                                         *)
(* Every task runs one call at a time.  A call is split at the points      *)
(* where the code can be observed by another task: the await of the        *)
(* registry lock, and the await of each handler future inside emit.        *)
(***************************************************************************)
EXTENDS Integers, Sequences, FiniteSets, TLC

\* ------------------------------------------------------------------ bounds
\* Total number of emit_event calls.
MaxEmits == 2

\* ------------------------------------------------------------- input sets
Tasks == {"t1", "t2"}
NoTask == "none"
\* enum RuntimeEvent { OnceTriggered { event_name }, Static { event_name } }
OnceX == [form |-> "OnceTriggered", event_name |-> "x"]
StaticX == [form |-> "Static", event_name |-> "x"]
RuntimeEvent == {OnceX, StaticX}

\* The services of the application and their event_handlers! declarations
\* ($event => $handler : $arg_type, in the order written).  The tag of a
\* listener is stringify!($struct_name).
Services == {"A", "B"}
Handlers(service) ==
    IF service = "A"
    THEN << [event |-> StaticX, arg |-> "P"], [event |-> StaticX, arg |-> "Q"],
            [event |-> OnceX, arg |-> "P"] >>
    ELSE << [event |-> StaticX, arg |-> "P"], [event |-> OnceX, arg |-> "P"] >>

\* The service values the application constructs.  init(self) consumes the
\* value, so each is registered at most once.
Instances == {"a1", "b1"}
ServiceOf(inst) == IF inst = "b1" THEN "B" ELSE "A"

\* Types a caller passes as `arg: T` to emit_event: a value of type P or Q, or
\* a reference to a value of type P (as the integration test does).
EmitTypes == {"P", "Q", "&P"}

\* ------------------------------------------------------------------ types
\* Key equality is the derived PartialEq/Eq/Hash: variant and name.
EventEqAnyForm(a, b) == a.event_name = b.event_name
EventEq(a, b) == a.form = b.form /\ a.event_name = b.event_name

\* Option<RuntimeEventBus>: None is the empty sequence, Some(b) is <<b>>.
NoBus == <<>>
SomeTaken(b) == <<>>
Some(b) == <<b>>
\* guard.as_mut() of a Some: the bus's pairs map.
Pairs(o) == o[1]
\* RuntimeEventBus::new(): pairs is an empty HashMap.
NewBus == [k \in {} |-> <<>>]

\* std::sync::Arc::new(arg): the concrete type of the shared payload.
ArcNew(ty) == <<"Arc", ty>>

\* downcast::<T>() on the type-erased argument: Some iff the concrete type
\* behind the reference is exactly T.
DowncastAlways(actual, wanted) == TRUE
Downcast(actual, wanted) == actual = wanted

VARIABLES
    env,        \* RUNTIME_MODULE_ENV holds Some(env)
    envLock,    \* holder of the std mutex around RUNTIME_MODULE_ENV
    bus,        \* RUNTIME_EVENT_BUS: NoBus, or Some(pairs map of the bus)
    busLock,    \* holder of the tokio mutex around RUNTIME_EVENT_BUS
    pc,         \* position of each task inside its current call
    call,       \* arguments and locals of each task's current call
    nextId,     \* identity given to the next listener closure
    consumed,   \* the service values already moved into init(self)
    emits,      \* number of emit_event calls made
    seen        \* per listener identity: the invocations of its handler, in
                \* order (payload, whether the user method ran, the emitted key
                \* and the key the listener was registered under)

vars == <<env, envLock, bus, busLock, pc, call, nextId, consumed, emits, seen>>

NoCall == [op |-> "none"]

\* ------------------------------------------------------- registry helpers
\* self.pairs.get(event)
HasKey(pairs, event) == \E k \in DOMAIN pairs : EventEq(k, event)
GetAnyForm(pairs, event) ==
    IF \E k \in DOMAIN pairs : EventEqAnyForm(k, event)
    THEN pairs[CHOOSE k \in DOMAIN pairs : EventEqAnyForm(k, event)]
    ELSE <<>>
Get(pairs, event) == IF HasKey(pairs, event) THEN pairs[event] ELSE <<>>

\* self.pairs.entry(event).or_insert(vec![]).push(listener)
AddListenerUnique(pairs, event, listener) ==
    [k \in DOMAIN pairs \cup {event} |->
        IF k # event THEN pairs[k]
        ELSE IF \E j \in 1..Len(Get(pairs, event)) :
                   Get(pairs, event)[j].tag = listener.tag
             THEN Get(pairs, event)
             ELSE Append(Get(pairs, event), listener)]
add_listener(pairs, event, listener) ==
    [k \in DOMAIN pairs \cup {event} |->
        IF k = event THEN Append(Get(pairs, event), listener) ELSE pairs[k]]

\* The closure of the generated init(): one add_listener per declared
\* handler, in declaration order.  The j-th closure gets identity first+j-1.
RECURSIVE AddHandlers(_, _, _, _)
AddHandlers(pairs, service, hs, first) ==
    IF hs = <<>> THEN pairs
    ELSE AddHandlers(
            add_listener(pairs, Head(hs).event,
                         [id |-> first, tag |-> service, arg |-> Head(hs).arg,
                          event |-> Head(hs).event]),
            service, Tail(hs), first + 1)

\* listeners.retain(|l| l.tag != tag)
RetainOnlyTag(listeners, tag) == SelectSeq(listeners, LAMBDA l : l.tag = tag)
Retain(listeners, tag) == SelectSeq(listeners, LAMBDA l : l.tag # tag)

\* for listeners in self.pairs.values_mut() { listeners.retain(..) }
RemoveByTagDroppingEmptyKeys(pairs, tag) ==
    [k \in {j \in DOMAIN pairs : Retain(pairs[j], tag) # <<>>} |->
        Retain(pairs[k], tag)]
remove_all_listeners_by_tag(pairs, tag) ==
    [k \in DOMAIN pairs |-> Retain(pairs[k], tag)]

\* self.pairs.remove(event)
RemoveKeyAnyForm(pairs, event) ==
    [k \in {j \in DOMAIN pairs : ~EventEqAnyForm(j, event)} |-> pairs[k]]
RemoveKey(pairs, event) ==
    [k \in {j \in DOMAIN pairs : ~EventEq(j, event)} |-> pairs[k]]

\* if let RuntimeEvent::OnceTriggered { .. } = event { self.pairs.remove(event); }
CleanupNever(pairs, event) == pairs
CleanupAlways(pairs, event) == RemoveKey(pairs, event)
Cleanup(pairs, event) ==
    IF event.form = "OnceTriggered" THEN RemoveKey(pairs, event) ELSE pairs

\* `for listener in listeners`: the entry visited at the i-th iteration.
NthListenerReversed(listeners, i) == listeners[Len(listeners) + 1 - i]
NthListener(listeners, i) == listeners[i]

\* RUNTIME_EVENT_BUS.lock().await completes only when nobody holds the lock.
LockFreeIgnored(holder) == TRUE
LockFree(holder) == holder = NoTask

\* ------------------------------------------------------------------- Init
Init ==
    /\ env = FALSE
    /\ envLock = NoTask
    /\ bus = NoBus
    /\ busLock = NoTask
    /\ pc = [t \in Tasks |-> "idle"]
    /\ call = [t \in Tasks |-> NoCall]
    /\ nextId = 1
    /\ consumed = {}
    /\ emits = 0
    /\ seen = <<>>

\* ----------------------------------------------------------- init_runtime
\* let mut guard = RUNTIME_MODULE_ENV.lock().unwrap(); *guard = Some(env);
InitRuntimeEnv(t) ==
    /\ pc[t] = "idle"
    /\ envLock = NoTask
    /\ envLock' = t
    /\ env' = TRUE
    /\ pc' = [pc EXCEPT ![t] = "init_lock"]
    /\ call' = [call EXCEPT ![t] = [op |-> "init_runtime"]]
    /\ UNCHANGED <<bus, busLock, nextId, consumed, emits, seen>>

\* let mut event_buss_guard = RUNTIME_EVENT_BUS.lock().await;
InitRuntimeLock(t) ==
    /\ pc[t] = "init_lock"
    /\ LockFree(busLock)
    /\ busLock' = t
    /\ pc' = [pc EXCEPT ![t] = "init_write"]
    /\ UNCHANGED <<env, envLock, bus, call, nextId, consumed, emits, seen>>

\* *event_buss_guard = Some(RuntimeEventBus::new()); both guards are dropped.
InitRuntimeWrite(t) ==
    /\ pc[t] = "init_write"
    /\ bus' = Some(NewBus)
    /\ busLock' = NoTask
    /\ envLock' = NoTask
    /\ pc' = [pc EXCEPT ![t] = "idle"]
    /\ call' = [call EXCEPT ![t] = NoCall]
    /\ UNCHANGED <<env, nextId, consumed, emits, seen>>

\* ------------------------------------------------------ with_instance_mut
\* A task calls the generated init() of one of the service values insts.
CallRegisterFrom(t, insts) ==
    /\ pc[t] = "idle"
    /\ \E inst \in insts \ consumed :
          /\ call' = [call EXCEPT ![t] =
                         [op |-> "register", service |-> ServiceOf(inst)]]
          /\ consumed' = consumed \cup {inst}
    /\ pc' = [pc EXCEPT ![t] = "wim_lock"]
    /\ UNCHANGED <<env, envLock, bus, busLock, nextId, emits, seen>>

CallRegister(t) == CallRegisterFrom(t, Instances)

\* A task calls the generated dispose_self() of a service:
\* with_instance_mut(|bus| bus.remove_all_listeners_by_tag(tag)).
CallRemove(t) ==
    /\ pc[t] = "idle"
    /\ \E s \in Services :
          call' = [call EXCEPT ![t] = [op |-> "remove", tag |-> s]]
    /\ pc' = [pc EXCEPT ![t] = "wim_lock"]
    /\ UNCHANGED <<env, envLock, bus, busLock, nextId, consumed, emits, seen>>

\* let mut guard = crate::global::RUNTIME_EVENT_BUS.lock().await;
\* (global::with_event_bus_mut has the same three lines as with_instance_mut.)
WithInstanceLock(t) ==
    /\ pc[t] = "wim_lock"
    /\ LockFree(busLock)
    /\ busLock' = t
    /\ pc' = [pc EXCEPT ![t] = "wim_body"]
    /\ UNCHANGED <<env, envLock, bus, call, nextId, consumed, emits, seen>>

\* guard.as_mut().expect(..) on None: the task panics with the message and
\* unwinds, which drops the guard.
WithInstancePanic(t) ==
    /\ pc[t] = "wim_body"
    /\ bus = NoBus
    /\ busLock' = NoTask
    /\ pc' = [pc EXCEPT ![t] = "panicked"]
    /\ call' = [call EXCEPT ![t] = NoCall]
    /\ UNCHANGED <<env, envLock, bus, nextId, consumed, emits, seen>>

\* f(bus) of init(): every declared handler is added; the guard is dropped.
WithInstanceRegister(t) ==
    /\ pc[t] = "wim_body"
    /\ bus # NoBus
    /\ call[t].op = "register"
    /\ LET hs == Handlers(call[t].service)
       IN /\ bus' = Some(AddHandlers(Pairs(bus), call[t].service, hs, nextId))
          /\ nextId' = nextId + Len(hs)
          /\ seen' = [i \in 1..(nextId + Len(hs) - 1) |->
                         IF i < nextId THEN seen[i] ELSE <<>>]
    /\ busLock' = NoTask
    /\ pc' = [pc EXCEPT ![t] = "idle"]
    /\ call' = [call EXCEPT ![t] = NoCall]
    /\ UNCHANGED <<env, envLock, consumed, emits>>

\* f(bus) of dispose_self(); the guard is dropped.
WithInstanceRemove(t) ==
    /\ pc[t] = "wim_body"
    /\ bus # NoBus
    /\ call[t].op = "remove"
    /\ bus' = Some(remove_all_listeners_by_tag(Pairs(bus), call[t].tag))
    /\ busLock' = NoTask
    /\ pc' = [pc EXCEPT ![t] = "idle"]
    /\ call' = [call EXCEPT ![t] = NoCall]
    /\ UNCHANGED <<env, envLock, nextId, consumed, emits, seen>>

\* ------------------------------------------------------------- emit_event
\* A task calls emit_event(event, arg) with an arg of type ty; data identifies
\* the payload value (the emits-th payload the application built).
CallEmit(t) ==
    /\ pc[t] = "idle"
    /\ emits < MaxEmits
    /\ \E ev \in RuntimeEvent, ty \in EmitTypes :
          call' = [call EXCEPT ![t] =
                      [op |-> "emit", event |-> ev, ty |-> ty,
                       data |-> emits + 1, i |-> 0, trace |-> <<>>]]
    /\ emits' = emits + 1
    /\ pc' = [pc EXCEPT ![t] = "emit_lock"]
    /\ UNCHANGED <<env, envLock, bus, busLock, nextId, consumed, seen>>

\* let mut guard = RUNTIME_EVENT_BUS.lock().await;
EmitLock(t) ==
    /\ pc[t] = "emit_lock"
    /\ LockFree(busLock)
    /\ busLock' = t
    /\ pc' = [pc EXCEPT ![t] = "emit_some"]
    /\ UNCHANGED <<env, envLock, bus, call, nextId, consumed, emits, seen>>

\* if let Some(bus) = guard.as_mut() fails: nothing is done, emit_event returns
\* normally and the guard is dropped.
EmitNone(t) ==
    /\ pc[t] = "emit_some"
    /\ bus = NoBus
    /\ busLock' = NoTask
    /\ pc' = [pc EXCEPT ![t] = "idle"]
    /\ call' = [call EXCEPT ![t] = NoCall]
    /\ UNCHANGED <<env, envLock, bus, nextId, consumed, emits, seen>>

\* bus.emit(&event, arg): the payload is wrapped and the loop is entered.
EmitBegin(t) ==
    /\ pc[t] = "emit_some"
    /\ bus # NoBus
    /\ call' = [call EXCEPT ![t].i = 1]
    /\ pc' = [pc EXCEPT ![t] = "emit_loop"]
    /\ UNCHANGED <<env, envLock, bus, busLock, nextId, consumed, emits, seen>>

\* (listener.handler)(&shared_payload): the closure downcasts the argument to
\* Arc<$arg_type>; its future runs the user method only if that succeeded.
EmitHandlerStart(t) ==
    /\ pc[t] = "emit_loop"
    /\ call[t].i <= Len(Get(Pairs(bus), call[t].event))
    /\ LET l == NthListener(Get(Pairs(bus), call[t].event), call[t].i)
           some == Downcast(ArcNew(call[t].ty), ArcNew(l.arg))
       IN /\ seen' = [seen EXCEPT ![l.id] =
                         Append(@, [data |-> call[t].data, ran |-> some,
                                    event |-> call[t].event, under |-> l.event])]
          /\ call' = [call EXCEPT ![t].trace = Append(@, <<"start", l.id>>)]
    /\ pc' = [pc EXCEPT ![t] = "emit_await"]
    /\ UNCHANGED <<env, envLock, bus, busLock, nextId, consumed, emits>>

\* .await of the handler future completes; the loop moves to the next entry.
EmitHandlerEnd(t) ==
    /\ pc[t] = "emit_await"
    /\ LET l == NthListener(Get(Pairs(bus), call[t].event), call[t].i)
       IN call' = [call EXCEPT ![t].trace = Append(@, <<"end", l.id>>),
                               ![t].i = @ + 1]
    /\ pc' = [pc EXCEPT ![t] = "emit_loop"]
    /\ UNCHANGED <<env, envLock, bus, busLock, nextId, consumed, emits, seen>>

\* The loop is over: if let RuntimeEvent::OnceTriggered { .. } = event, the key
\* is removed; bus.emit returns.
EmitCleanup(t) ==
    /\ pc[t] = "emit_loop"
    /\ call[t].i > Len(Get(Pairs(bus), call[t].event))
    /\ bus' = Some(Cleanup(Pairs(bus), call[t].event))
    /\ pc' = [pc EXCEPT ![t] = "emit_done"]
    /\ UNCHANGED <<env, envLock, busLock, call, nextId, consumed, emits, seen>>

\* emit_event returns to its caller; the guard is dropped.
EmitReturnKeepsGuard(t) ==
    /\ pc[t] = "emit_done"
    /\ pc' = [pc EXCEPT ![t] = "idle"]
    /\ call' = [call EXCEPT ![t] = NoCall]
    /\ UNCHANGED <<env, envLock, bus, busLock, nextId, consumed, emits, seen>>
EmitReturn(t) ==
    /\ pc[t] = "emit_done"
    /\ busLock' = NoTask
    /\ pc' = [pc EXCEPT ![t] = "idle"]
    /\ call' = [call EXCEPT ![t] = NoCall]
    /\ UNCHANGED <<env, envLock, bus, nextId, consumed, emits, seen>>

\* ------------------------------------------------------------------- Next
Next ==
    \E t \in Tasks :
        \/ InitRuntimeEnv(t)
        \/ InitRuntimeLock(t)
        \/ InitRuntimeWrite(t)
        \/ CallRegister(t)
        \/ CallRemove(t)
        \/ WithInstanceLock(t)
        \/ WithInstancePanic(t)
        \/ WithInstanceRegister(t)
        \/ WithInstanceRemove(t)
        \/ CallEmit(t)
        \/ EmitLock(t)
        \/ EmitNone(t)
        \/ EmitBegin(t)
        \/ EmitHandlerStart(t)
        \/ EmitHandlerEnd(t)
        \/ EmitCleanup(t)
        \/ EmitReturn(t)

Spec == Init /\ [][Next]_vars

\* ------------------------------------------------------------ fair runs
\* tokio::sync::Mutex queues its waiters first-in first-out, so a task that
\* waits at lock().await is served once the lock has been released often
\* enough (strong fairness of the three acquisitions).  A task that holds the
\* guard runs straight-line code and handler futures that terminate, so each of
\* its steps is eventually taken (weak fairness).  Tasks are free never to
\* issue a call.
Acquire(t) == InitRuntimeLock(t) \/ WithInstanceLock(t) \/ EmitLock(t)
Holding(t) ==
    \/ InitRuntimeWrite(t)
    \/ WithInstancePanic(t)
    \/ WithInstanceRegister(t)
    \/ WithInstanceRemove(t)
    \/ EmitNone(t)
    \/ EmitBegin(t)
    \/ EmitHandlerStart(t)
    \/ EmitHandlerEnd(t)
    \/ EmitCleanup(t)
    \/ EmitReturn(t)
Fairness == \A t \in Tasks : SF_vars(Acquire(t)) /\ WF_vars(Holding(t))

FairSpec == Spec /\ Fairness

\* ------------------------------------------------- handlers that re-enter
\* The user method awaited by the loop of emit calls back into the bus:
\* dispose_self() (with_instance_mut) or emit_event.  The handler future stops
\* at RUNTIME_EVENT_BUS.lock().await while the enclosing emit_event keeps its
\* guard; outer remembers the suspended emission.
HandlerReenter(t) ==
    /\ pc[t] = "emit_await"
    /\ LET l == NthListener(Get(Pairs(bus), call[t].event), call[t].i)
       IN \/ /\ call' = [call EXCEPT ![t] =
                            [op |-> "remove", tag |-> l.tag, outer |-> call[t]]]
             /\ pc' = [pc EXCEPT ![t] = "wim_lock"]
          \/ /\ call' = [call EXCEPT ![t] =
                            [op |-> "emit", event |-> l.event, ty |-> l.arg,
                             data |-> 0, i |-> 0, trace |-> <<>>,
                             outer |-> call[t]]]
             /\ pc' = [pc EXCEPT ![t] = "emit_lock"]
    /\ UNCHANGED <<env, envLock, bus, busLock, nextId, consumed, emits, seen>>

ReentryNext == Next \/ \E t \in Tasks : HandlerReenter(t)

SpecReentry == Init /\ [][ReentryNext]_vars

\* ------------------------------------- handlers that read the environment
\* The user method awaited by the loop of emit calls runtime_env():
\* RUNTIME_MODULE_ENV.lock().unwrap() blocks until the std mutex is free, the
\* handler reads the environment and drops the guard before it returns.
HandlerEnvCall(t) ==
    /\ pc[t] = "emit_await"
    /\ pc' = [pc EXCEPT ![t] = "handler_env"]
    /\ UNCHANGED <<env, envLock, bus, busLock, call, nextId, consumed, emits,
                   seen>>

HandlerEnvLock(t) ==
    /\ pc[t] = "handler_env"
    /\ envLock = NoTask
    /\ envLock' = t
    /\ pc' = [pc EXCEPT ![t] = "handler_env_held"]
    /\ UNCHANGED <<env, bus, busLock, call, nextId, consumed, emits, seen>>

HandlerEnvDrop(t) ==
    /\ pc[t] = "handler_env_held"
    /\ envLock' = NoTask
    /\ pc' = [pc EXCEPT ![t] = "emit_await"]
    /\ UNCHANGED <<env, bus, busLock, call, nextId, consumed, emits, seen>>

EnvNext ==
    \/ Next
    \/ \E t \in Tasks : HandlerEnvCall(t)
    \/ \E t \in Tasks : HandlerEnvLock(t)
    \/ \E t \in Tasks : HandlerEnvDrop(t)

SpecEnv == Init /\ [][EnvNext]_vars

\* ------------------------------------------------------ abandoned emissions
\* The emit_event future is dropped while it is suspended at the .await of a
\* handler future (select!, timeout, an aborted task): the handler future and
\* the MutexGuard are dropped, so the lock is released, and the code after the
\* loop of emit never runs.
EmitAbandon(t) ==
    /\ pc[t] = "emit_await"
    /\ busLock' = NoTask
    /\ pc' = [pc EXCEPT ![t] = "idle"]
    /\ call' = [call EXCEPT ![t] = NoCall]
    /\ UNCHANGED <<env, envLock, bus, nextId, consumed, emits, seen>>

AbandonNext == Next \/ \E t \in Tasks : EmitAbandon(t)

SpecAbandon == Init /\ [][AbandonNext]_vars

\* ------------------------------------------------- one task, two A values
\* The application of the integration test: a single task makes its calls one
\* after the other.  It constructs two values of service A, so the same
\* handlers are registered twice under the same keys with the same tag.
MainTask == "t1"
DupInstances == {"a1", "a2", "b1"}

SeqNext ==
    \/ InitRuntimeEnv(MainTask)
    \/ InitRuntimeLock(MainTask)
    \/ InitRuntimeWrite(MainTask)
    \/ CallRegisterFrom(MainTask, DupInstances)
    \/ CallRemove(MainTask)
    \/ WithInstanceLock(MainTask)
    \/ WithInstancePanic(MainTask)
    \/ WithInstanceRegister(MainTask)
    \/ WithInstanceRemove(MainTask)
    \/ CallEmit(MainTask)
    \/ EmitLock(MainTask)
    \/ EmitNone(MainTask)
    \/ EmitBegin(MainTask)
    \/ EmitHandlerStart(MainTask)
    \/ EmitHandlerEnd(MainTask)
    \/ EmitCleanup(MainTask)
    \/ EmitReturn(MainTask)

SpecSeq == Init /\ [][SeqNext]_vars

\* ---------------------------------------------------------------- helpers
\* The task is between the start of the listener loop and the cleanup.
InLoop(t) == pc[t] \in {"emit_loop", "emit_await"}
\* The task is inside emit_event with the registry lock taken.
InEmit(t) == pc[t] \in {"emit_some", "emit_loop", "emit_await", "emit_done"}
\* The task is inside a critical section of the registry.
InCritical(t) == pc[t] \in {"init_write", "wim_body"} \/ InEmit(t)
\* The listeners stored under the key the task is emitting.
Listeners(t) == Get(Pairs(bus), call[t].event)
\* The identities of the listeners of a sequence.
Ids(ls) == {ls[j].id : j \in 1..Len(ls)}
\* The step in which the task leaves the listener loop (cleanup, then return).
LeavesLoop(t) == pc[t] = "emit_loop" /\ pc'[t] = "emit_done"

\* ----------------------------------------------------------------- claims
\* C1: one emit invokes the listeners of the key in registration order
\* (identities are handed out in registration order, so in ascending
\* identity), each handler completing before the next one starts, and the
\* emission leaves the loop only when every listener of the key has been
\* started and has completed.
C1_TraceSequential(t) ==
    LET tr == call[t].trace
    IN /\ \A k \in 1..Len(tr) :
             /\ tr[k][1] = (IF k % 2 = 1 THEN "start" ELSE "end")
             /\ k % 2 = 0 => tr[k][2] = tr[k - 1][2]
             /\ (k % 2 = 1 /\ k > 2) => tr[k][2] > tr[k - 2][2]
       /\ pc[t] = "emit_loop" => Len(tr) % 2 = 0
C1_TraceComplete(t) ==
    LET tr == call[t].trace
    IN /\ Len(tr) = 2 * Len(Listeners(t))
       /\ {tr[k][2] : k \in 1..Len(tr)} = Ids(Listeners(t))
C1_SequentialInOrder ==
    [][\A t \in Tasks :
          /\ InLoop(t) => C1_TraceSequential(t)
          /\ LeavesLoop(t) => C1_TraceComplete(t)]_vars
\* An emission is about to leave the loop after two listeners ran one after
\* the other.
C1_Witness ==
    \E t \in Tasks :
        /\ pc[t] = "emit_done"
        /\ Len(call[t].trace) >= 4

\* The invocations of listener id that delivered payload d.
Deliveries(id, d) == SelectSeq(seen[id], LAMBDA e : e.data = d)

\* C2: when an emission of a OnceTriggered key leaves the loop, the key is
\* deleted from the registry and every listener that was stored under it has
\* been invoked exactly once in total; no listener registered under a
\* OnceTriggered key is ever invoked a second time.
C2_OnceFiresOnce ==
    [][/\ \A t \in Tasks :
            (LeavesLoop(t) /\ call[t].event.form = "OnceTriggered") =>
               /\ ~HasKey(Pairs(bus'), call[t].event)
               /\ \A id \in Ids(Listeners(t)) : Len(seen[id]) = 1
       /\ \A id \in DOMAIN seen' :
            (seen'[id] # <<>> /\ seen'[id][1].under.form = "OnceTriggered")
               => Len(seen'[id]) = 1]_vars
\* A second emission of the once key found no listener, after the first one
\* had invoked a listener of that key.
C2_Witness ==
    \E t \in Tasks :
        /\ pc[t] = "emit_done"
        /\ call[t].event = OnceX
        /\ call[t].data = 2
        /\ call[t].trace = <<>>
        /\ \E id \in DOMAIN seen :
              /\ Len(seen[id]) = 1
              /\ seen[id][1].under = OnceX
              /\ seen[id][1].data = 1

\* C3: an emission of a Static key never changes the registry, and when it
\* leaves the loop every listener stored under the key whose declared type is
\* the payload's type has run its method exactly once for this payload, as the
\* most recent of its calls; a listener never receives the same payload twice.
C3_StaticPersists ==
    [][/\ \A t \in Tasks :
            (InEmit(t) /\ call[t].event.form = "Static") =>
               /\ bus' = bus
               /\ LeavesLoop(t) =>
                     \A j \in 1..Len(Listeners(t)) :
                        LET l == Listeners(t)[j]
                            mine == Deliveries(l.id, call[t].data)
                        IN l.arg = call[t].ty =>
                             /\ Len(mine) = 1
                             /\ mine[1].ran
                             /\ seen[l.id][Len(seen[l.id])] = mine[1]
       /\ \A id \in DOMAIN seen : \A i, j \in 1..Len(seen[id]) :
            i # j => seen[id][i].data # seen[id][j].data]_vars
\* The second emission of the static key has been delivered to a listener that
\* also received the first one: two calls, payload 1 then payload 2.
C3_Witness ==
    \E t \in Tasks :
        /\ pc[t] = "emit_done"
        /\ call[t].event = StaticX
        /\ \E id \in Ids(Listeners(t)) :
              /\ Len(seen[id]) = 2
              /\ seen[id][1].ran /\ seen[id][1].data = 1
              /\ seen[id][2].ran /\ seen[id][2].data = 2

\* C4: Static(x) and OnceTriggered(x) are separate keys: while a task emits a
\* key, the sequence stored under every other key stays as it is, and a
\* listener is only ever invoked by an emission of the key it was registered
\* under.
C4_IndependentKeys ==
    [][/\ \A t \in Tasks :
            (InEmit(t) /\ bus # NoBus) =>
               \A k \in DOMAIN Pairs(bus) :
                  k # call[t].event =>
                     /\ k \in DOMAIN Pairs(bus')
                     /\ Pairs(bus')[k] = Pairs(bus)[k]
       /\ \A id \in DOMAIN seen' : \A j \in 1..Len(seen'[id]) :
            seen'[id][j].event = seen'[id][j].under]_vars
\* An emission of OnceTriggered(x) has invoked its listeners and removed its
\* key while Static(x) still holds listeners, none of which was invoked by it.
C4_Witness ==
    \E t \in Tasks :
        /\ pc[t] = "emit_done"
        /\ call[t].event = OnceX
        /\ call[t].trace # <<>>
        /\ Get(Pairs(bus), StaticX) # <<>>
        /\ \A id \in Ids(Get(Pairs(bus), StaticX)) :
              Deliveries(id, call[t].data) = <<>>

\* Position of entry x in the sequence ls.
Pos(ls, x) == CHOOSE i \in 1..Len(ls) : ls[i] = x

\* C5: remove_all_listeners_by_tag(tag) keeps every key and, under every key,
\* leaves exactly the entries whose tag differs from tag, in their previous
\* relative order; a handler is only ever invoked while its entry is stored
\* under the key being emitted, so removed listeners no longer fire.
C5_TagRemoval ==
    [][/\ \A t \in Tasks :
            (pc[t] = "wim_body" /\ call[t].op = "remove" /\ pc'[t] = "idle") =>
               \A k \in DOMAIN Pairs(bus) :
                  /\ k \in DOMAIN Pairs(bus')
                  /\ LET old == Pairs(bus)[k]
                         new == Pairs(bus')[k]
                     IN /\ \A j \in 1..Len(new) : new[j].tag # call[t].tag
                        /\ {new[j] : j \in 1..Len(new)} =
                              {old[j] : j \in {i \in 1..Len(old) :
                                                 old[i].tag # call[t].tag}}
                        /\ \A i, j \in 1..Len(new) :
                              i < j => Pos(old, new[i]) < Pos(old, new[j])
       /\ \A id \in DOMAIN seen :
            seen'[id] # seen[id] =>
               \E t \in Tasks : InLoop(t) /\ id \in Ids(Listeners(t))]_vars
\* Service B was registered first and service A after it; A's listeners are
\* gone from Static(x) while B's is still there, and an emission of Static(x)
\* has invoked B's listener alone.
C5_Witness ==
    \E t \in Tasks :
        /\ pc[t] = "emit_done"
        /\ call[t].event = StaticX
        /\ nextId = 6
        /\ Ids(Get(Pairs(bus), StaticX)) = {1}
        /\ call[t].trace = << <<"start", 1>>, <<"end", 1>> >>
        /\ seen[1][Len(seen[1])].ran

\* C6: a listener whose declared payload type differs from the type of the
\* emitted payload does not run its method; the emission still invokes every
\* listener of the key once, runs the method of exactly those whose declared
\* type is the payload's type, and never aborts the emitter.
C6_TypeMismatchSkip ==
    [][\A t \in Tasks :
          /\ InEmit(t) => pc'[t] # "panicked"
          /\ LeavesLoop(t) =>
                \A j \in 1..Len(Listeners(t)) :
                   LET l == Listeners(t)[j]
                       mine == Deliveries(l.id, call[t].data)
                   IN /\ Len(mine) = 1
                      /\ mine[1].ran <=> (l.arg = call[t].ty)]_vars
\* An emission skipped a listener of another type and then ran the method of
\* a later listener of the key.
C6_Witness ==
    \E t \in Tasks :
        /\ pc[t] = "emit_done"
        /\ call[t].event = StaticX
        /\ \E i, j \in 1..Len(Listeners(t)) :
              /\ i < j
              /\ Listeners(t)[i].arg # call[t].ty
              /\ Deliveries(Listeners(t)[i].id, call[t].data) # <<>>
              /\ ~Deliveries(Listeners(t)[i].id, call[t].data)[1].ran
              /\ Deliveries(Listeners(t)[j].id, call[t].data) # <<>>
              /\ Deliveries(Listeners(t)[j].id, call[t].data)[1].ran

\* C7: as the integration test expects, emitting Static(K) with a reference to
\* a value of type P runs, exactly once and with that payload, the method of
\* every listener of Static(K) declared for payload type P.
C7_ReferencePayloadDelivered ==
    \A t \in Tasks :
        (pc[t] = "emit_done" /\ call[t].event = StaticX /\ call[t].ty = "&P") =>
           \A j \in 1..Len(Listeners(t)) :
              LET l == Listeners(t)[j]
                  mine == Deliveries(l.id, call[t].data)
              IN l.arg = "P" => (Len(mine) = 1 /\ mine[1].ran)

\* C8: a second init_runtime leaves an already constructed registry as it is.
C8_InitIdempotent ==
    [][\A t \in Tasks :
          (pc[t] = "init_write" /\ pc'[t] = "idle" /\ bus # NoBus) => bus' = bus]_vars

\* C9: every call that finds the registry absent, through with_instance_mut or
\* through emit_event, ends in a panic.
C9_FatalPrecondition ==
    [][\A t \in Tasks :
          (pc[t] \in {"wim_body", "emit_some"} /\ bus = NoBus /\ pc'[t] # pc[t])
             => pc'[t] = "panicked"]_vars

\* C10: a task inside a critical section of the registry (the write of
\* init_runtime, the body of with_instance_mut, an emission from its Some
\* check to its return, handler awaits included) holds the registry lock, so
\* at most one task is inside a critical section.
C10_MutualExclusion ==
    /\ \A t \in Tasks : InCritical(t) => busLock = t
    /\ Cardinality({t \in Tasks : InCritical(t)}) <= 1
\* An emitter is suspended at a handler's await while another task waits for
\* the registry lock.
C10_Witness ==
    \E t, u \in Tasks :
        /\ t # u
        /\ pc[t] = "emit_await"
        /\ busLock = t
        /\ pc[u] \in {"init_lock", "wim_lock", "emit_lock"}

\* C11: bus calls of different tasks are totally ordered.  From the moment an
\* emission holds the lock until its cleanup the registry stays as it was
\* when the lock was acquired, no other task is inside a critical section,
\* every handler invocation is one of this emission, and the handlers it has
\* invoked when it leaves the loop are the stored sequence, entry by entry.
C11_TotalOrder ==
    [][\A t \in Tasks :
          pc[t] \in {"emit_some", "emit_loop", "emit_await"} =>
             /\ bus' = bus \/ LeavesLoop(t)
             /\ \A u \in Tasks \ {t} : ~InCritical(u)
             /\ seen' # seen => (pc[t] = "emit_loop" /\ pc'[t] = "emit_await")
             /\ LeavesLoop(t) =>
                   /\ Len(call[t].trace) = 2 * Len(Listeners(t))
                   /\ \A k \in 1..Len(Listeners(t)) :
                         call[t].trace[2 * k - 1] = <<"start", Listeners(t)[k].id>>]_vars
\* While an emission with listeners is suspended in a handler, another task
\* has issued a register or remove_by_tag call and waits for the lock.
C11_Witness ==
    \E t, u \in Tasks :
        /\ t # u
        /\ pc[t] = "emit_await"
        /\ Listeners(t) # <<>>
        /\ pc[u] = "wim_lock"

\* The emitted key has no listener: it is absent or its sequence is empty.
ZeroListeners(t) ==
    \/ call[t].event \notin DOMAIN Pairs(bus)
    \/ Pairs(bus)[call[t].event] = <<>>

\* C12: an emission of a key without listeners, on an initialized bus,
\* invokes no handler, leaves the sequence of every other key as it is and
\* returns normally.
C12_EmptyEmission ==
    [][\A t \in Tasks :
          /\ (pc[t] = "emit_loop" /\ ZeroListeners(t)) =>
                /\ seen' = seen
                /\ pc'[t] \in {"emit_loop", "emit_done"}
                /\ LeavesLoop(t) =>
                      /\ call[t].trace = <<>>
                      /\ \A k \in DOMAIN Pairs(bus) :
                            k # call[t].event =>
                               /\ k \in DOMAIN Pairs(bus')
                               /\ Pairs(bus')[k] = Pairs(bus)[k]
          /\ (pc[t] = "emit_done" /\ call[t].trace = <<>>) =>
                pc'[t] \in {"emit_done", "idle"}]_vars
\* An emission of a key without listeners has finished its loop while the
\* other key still holds listeners.
C12_Witness ==
    \E t \in Tasks :
        /\ pc[t] = "emit_done"
        /\ call[t].trace = <<>>
        /\ \E k \in DOMAIN Pairs(bus) : k # call[t].event /\ Pairs(bus)[k] # <<>>

\* The sequence stored under key k, empty when the key is absent.
Stored(o, k) == IF k \in DOMAIN Pairs(o) THEN Pairs(o)[k] ELSE <<>>

\* C13: registration appends.  The init() of a service leaves every existing
\* entry where it is, adds one new entry per declared handler at the end of
\* the handler's key (creating the key if needed), whether or not an entry
\* with the same tag and handler is already there, and changes no key without
\* a declared handler; an emission then invokes every stored entry once,
\* duplicates included.
C13_RegisterAppends ==
    [][\A t \in Tasks :
          /\ (pc[t] = "wim_body" /\ call[t].op = "register" /\ pc'[t] = "idle") =>
                \A k \in RuntimeEvent :
                   LET old == Stored(bus, k)
                       new == Stored(bus', k)
                       added == SelectSeq(Handlers(call[t].service),
                                          LAMBDA h : h.event = k)
                   IN /\ (k \in DOMAIN Pairs(bus')) <=>
                            (k \in DOMAIN Pairs(bus) \/ added # <<>>)
                      /\ Len(new) = Len(old) + Len(added)
                      /\ SubSeq(new, 1, Len(old)) = old
                      /\ \A j \in 1..Len(added) :
                            /\ new[Len(old) + j].tag = call[t].service
                            /\ new[Len(old) + j].arg = added[j].arg
                            /\ new[Len(old) + j].id >= nextId
          /\ LeavesLoop(t) =>
                \A j \in 1..Len(Listeners(t)) :
                   Len(Deliveries(Listeners(t)[j].id, call[t].data)) = 1]_vars
\* Two entries with the same tag and the same handler type are stored under
\* the emitted key, and the emission has run the method of both.
C13_Witness ==
    \E t \in Tasks :
        /\ pc[t] = "emit_done"
        /\ \E i, j \in 1..Len(Listeners(t)) :
              /\ i < j
              /\ Listeners(t)[i].tag = Listeners(t)[j].tag
              /\ Listeners(t)[i].arg = Listeners(t)[j].arg
              /\ Deliveries(Listeners(t)[i].id, call[t].data) # <<>>
              /\ Deliveries(Listeners(t)[i].id, call[t].data)[1].ran
              /\ Deliveries(Listeners(t)[j].id, call[t].data) # <<>>
              /\ Deliveries(Listeners(t)[j].id, call[t].data)[1].ran

\* C14: remove_all_listeners_by_tag keeps the set of keys, changes nothing
\* when no entry carries the tag, and removing the same tag again from its
\* result changes nothing.
C14_RemoveIdempotent ==
    [][\A t \in Tasks :
          (pc[t] = "wim_body" /\ call[t].op = "remove" /\ pc'[t] = "idle") =>
             /\ DOMAIN Pairs(bus') = DOMAIN Pairs(bus)
             /\ (\A k \in DOMAIN Pairs(bus) : \A j \in 1..Len(Pairs(bus)[k]) :
                    Pairs(bus)[k][j].tag # call[t].tag) => bus' = bus
             /\ remove_all_listeners_by_tag(Pairs(bus'), call[t].tag) = Pairs(bus')]_vars
\* A key whose sequence was emptied by a removal is still in the registry.
C14_Witness ==
    /\ bus # NoBus
    /\ \E k \in DOMAIN Pairs(bus) : Pairs(bus)[k] = <<>>

\* The handler that task t's emission is awaiting has called back into the bus.
Reentered(t) == "outer" \in DOMAIN call[t]
LockWait(t) == pc[t] \in {"init_lock", "wim_lock", "emit_lock"}

\* C15: self-deadlock on re-entry.  Once a handler awaits the registry lock
\* inside an emission, the emitting task holds the lock and waits for it for
\* ever: it never moves again, the registry and the deliveries never change,
\* no other task enters a critical section, and every task waiting for the
\* lock keeps waiting.
C15_SelfDeadlock ==
    [][\A t \in Tasks :
          Reentered(t) =>
             /\ LockWait(t) /\ busLock = t
             /\ pc'[t] = pc[t] /\ call'[t] = call[t] /\ busLock' = t
             /\ bus' = bus /\ seen' = seen
             /\ \A u \in Tasks \ {t} :
                   /\ ~InCritical(u) /\ pc'[u] \notin {"init_write", "wim_body",
                         "emit_some", "emit_loop", "emit_await", "emit_done"}
                   /\ LockWait(u) => pc'[u] = pc[u] /\ call'[u] = call[u]]_vars
\* A handler has re-entered and a later operation of another task is waiting
\* for the lock behind it.
C15_Witness ==
    \E t, u \in Tasks :
        /\ t # u
        /\ Reentered(t) /\ LockWait(t) /\ busLock = t
        /\ pc[u] = "emit_lock"

\* C16: the registry is absent initially, becomes present only by the write
\* of init_runtime, is present when init_runtime returns, and once present it
\* is present in every later state.
C16_HandleLifecycle ==
    /\ bus = NoBus
    /\ [][/\ bus # NoBus => bus' # NoBus
          /\ (bus = NoBus /\ bus' # NoBus) =>
                \E t \in Tasks : pc[t] = "init_write" /\ pc'[t] = "idle"
          /\ \A t \in Tasks :
                (pc[t] = "init_write" /\ pc'[t] = "idle") => bus' # NoBus]_vars
\* A second init_runtime is about to write while the registry is present and
\* listeners have been registered.
C16_Witness ==
    \E t \in Tasks :
        /\ pc[t] = "init_write"
        /\ bus # NoBus
        /\ nextId > 1

C18_NoLockOrderDeadlock ==
    \A t, u \in Tasks :
        (t # u /\ pc[t] = "handler_env" /\ pc[u] = "init_lock") =>
            (ENABLED HandlerEnvLock(t) \/ ENABLED InitRuntimeLock(u))

\* C19: at-most-once under abandonment.  The method of a listener stored under
\* a OnceTriggered key is run at most once over all emissions, also when an
\* emission was abandoned before its cleanup step and the key is emitted again.
C19_OnceUnderAbandonment ==
    \A id \in DOMAIN seen :
        \A i, j \in 1..Len(seen[id]) :
            (/\ seen[id][i].under.form = "OnceTriggered"
             /\ seen[id][i].ran
             /\ seen[id][j].ran) => i = j

TypeOK ==
    /\ env \in BOOLEAN
    /\ envLock \in Tasks \cup {NoTask}
    /\ busLock \in Tasks \cup {NoTask}
    /\ consumed \subseteq DupInstances
    /\ emits \in 0..MaxEmits
====
